---- MODULE Spec2Model ----
(***************************************************************************)
(* CodeTracker: the notification scheduler (backend/notification_scheduler *)
(* .py) with the platform probes and the trigger CRUD routes of            *)
(* backend/server.py it works against.                                     *)
(*                                                                         *)
(* Time is counted in ticks of ten seconds since midnight of day 0.        *)
(* Strings the code builds with f-strings are sequences of pieces, so that *)
(* "the message contains the username" is a statement about the sequence.  *)
(***************************************************************************)
EXTENDS Integers, Sequences, FiniteSets, TLC

----------------------------------------------------------------------------
(* Bounds of the model *)

\* ticks of clock the model follows after boot
Horizon == 12
\* calls of the trigger routes (post, delete) after boot
MaxClientCalls == 1
\* calls of start_scheduler
MaxStarts == 2
\* extra ticks one time.sleep(30) may take (drift of the check loop)
MaxDrift == 1
\* ticks one probe call may take
MaxProbeTicks == 1
\* probe calls the upstream fails to answer with 200 and a usable body
MaxProbeFaults == 1
\* calls of the database that raise
MaxStoreFaults == 1

----------------------------------------------------------------------------
(* Program constants *)

\* time.sleep(30): three ticks of ten seconds
SleepTicks == 3
\* one wall-clock minute, the unit of strftime("%H:%M")
TicksPerMinute == 2 * SleepTicks
\* the job's period had the job been scheduled at the pace of the check loop
EveryThirtySeconds == SleepTicks
\* schedule.every().minute: the job's period
JobIntervalTicks == TicksPerMinute
\* to_list(1000), scaled to the size of the model's store: the cursor hands
\* over at most this many documents, and the store can hold one more
ToListLimit == 2

MinutesPerDay == 24 * 60

\* httpx.AsyncClient(timeout=30): three ticks of ten seconds
TimeoutTicks == 3

----------------------------------------------------------------------------
(* Wall clock: datetime.now().strftime("%H:%M") *)

Digit == <<"0", "1", "2", "3", "4", "5", "6", "7", "8", "9">>

\* %H and %M: two decimal digits, zero padded
Pad2(n) == <<Digit[(n \div 10) + 1], Digit[(n % 10) + 1]>>

\* the absolute minute a tick lies in
MinuteOf(t) == t \div TicksPerMinute

\* strftime("%H:%M") of the local time at tick t
Strftime(t) ==
    LET m == MinuteOf(t) % MinutesPerDay
    IN  Pad2(m \div 60) \o <<":">> \o Pad2(m % 60)

\* a time of day as a client writes it: its characters
T2359 == <<"2", "3", ":", "5", "9">>
T0000 == <<"0", "0", ":", "0", "0">>

----------------------------------------------------------------------------
(* Strings built from pieces *)

\* piece x occurs in the string s
Contains(s, x) == \E i \in 1..Len(s) : s[i] = x

\* str(n) of the status codes the probes see
StatusStr(n) ==
    CASE n = 200 -> "200"
      [] n = 401 -> "401"
      [] n = 403 -> "403"
      [] n = 404 -> "404"
      [] n = 500 -> "500"
      [] n = 502 -> "502"
      [] n = 503 -> "503"

\* an exception: HTTPException(status_code, detail), or a plain Exception
\* whose message is detail (status 0)
HTTPException(status, detail) == [status |-> status, detail |-> detail]
PlainException(msg) == [status |-> 0, detail |-> msg]

\* str(e): "{status_code}: {detail}" for an HTTPException, the message for
\* any other exception
Str(e) ==
    IF e.status = 0 THEN e.detail
    ELSE <<StatusStr(e.status), ": ">> \o e.detail

\* a call's outcome: a returned value or a raised exception
Return(v) == [raised |-> FALSE, value |-> v]
Raise(e) == [raised |-> TRUE, exc |-> e]

----------------------------------------------------------------------------
(* What the upstream platforms may answer *)

\* one day of the wall clock
TicksPerDay == MinutesPerDay * TicksPerMinute

\* an event of the events feed: its type, its created_at (a tick) and the
\* number of commits in its payload
Event(type, created_at, commits) ==
    [type |-> type, created_at |-> created_at, commits |-> commits]

\* noon of day 0
Noon == 12 * 60 * TicksPerMinute

\* the events feeds the model draws from
EventFeeds ==
    {<<>>,
     <<Event("WatchEvent", Noon, 0), Event("PushEvent", Noon, 1)>>}

\* api.github.com/users/{username}/events: an HTTP answer with a status and,
\* for 200, the events feed; or no connection ("down"); or a connection on
\* which no answer ever comes ("silent")
GitHubAnswers ==
    {[net |-> "http", status |-> 200, events |-> f] : f \in EventFeeds}
    \cup {[net |-> "http", status |-> c, events |-> <<>>] :
             c \in {401, 403, 404, 502}}
    \cup {[net |-> n, status |-> 0, events |-> <<>>] :
             n \in {"down", "silent"}}

\* titles of the problem of the day
Titles == {"Two Sum"}

\* leetcode.com/graphql: an HTTP answer with a status and, for 200, a body
\* that holds the daily challenge or does not; or no connection; or a
\* connection on which no answer ever comes
LeetCodeAnswers ==
    {[net |-> "http", status |-> 200, has_data |-> TRUE, title |-> t] :
        t \in Titles}
    \cup {[net |-> "http", status |-> 200, has_data |-> FALSE, title |-> ""],
          [net |-> "http", status |-> 503, has_data |-> FALSE, title |-> ""],
          [net |-> "down", status |-> 0, has_data |-> FALSE, title |-> ""],
          [net |-> "silent", status |-> 0, has_data |-> FALSE, title |-> ""]}

\* str(e) of the transport errors of httpx and requests
ConnectError == <<"All connection attempts failed">>

\* str(e) of httpx.ReadTimeout, raised when the client's timeout expires
ReadTimeout == <<"The read operation timed out">>

----------------------------------------------------------------------------
(* GitHubAPIClient *)

get_user_events(username, answer) ==
    IF answer.net = "down"
    THEN Raise(HTTPException(500,
             <<"GitHub API connection error: ">> \o ConnectError))
    ELSE IF answer.net = "silent"
    THEN Raise(HTTPException(500,
             <<"GitHub API connection error: ">> \o ReadTimeout))
    ELSE IF answer.status = 404
    THEN Raise(HTTPException(404, <<"GitHub user not found">>))
    ELSE IF answer.status = 403
    THEN Raise(HTTPException(403, <<"GitHub API rate limit exceeded">>))
    ELSE IF answer.status = 401
    THEN Raise(HTTPException(401, <<"Invalid GitHub token">>))
    ELSE IF answer.status # 200
    THEN Raise(HTTPException(answer.status, <<"GitHub API error">>))
    ELSE Return(answer.events)

\* datetime.now(timezone.utc) at midnight; the server's local time is UTC
today_start(t) == (t \div TicksPerDay) * TicksPerDay

\* the commits of the loop had it not compared event_date with today_start
RECURSIVE today_commits_any_day(_, _)
today_commits_any_day(events, start) ==
    IF events = <<>> THEN 0
    ELSE LET event == Head(events)
             rest == today_commits_any_day(Tail(events), start)
         IN  IF event.type # "PushEvent" THEN rest
             ELSE event.commits + rest

\* the commits of the push events of today, counted as the loop appends them
RECURSIVE today_commits(_, _)
today_commits(events, start) ==
    IF events = <<>> THEN 0
    ELSE LET event == Head(events)
             rest == today_commits(Tail(events), start)
         IN  IF event.type # "PushEvent" THEN rest
             ELSE IF event.created_at < start THEN rest
             ELSE event.commits + rest

check_commits_today(username, answer, t) ==
    LET events == get_user_events(username, answer)
    IN  IF events.raised
        THEN Raise(HTTPException(500,
                 <<"Error checking GitHub commits: ">> \o Str(events.exc)))
        ELSE LET n == today_commits(events.value, today_start(t))
             IN  Return([username |-> username,
                         has_commits_today |-> n > 0,
                         commit_count |-> n])

----------------------------------------------------------------------------
(* LeetCodeScraper *)

get_daily_challenge(answer) ==
    LET failure ==
            IF answer.net = "down" THEN ConnectError
            ELSE IF answer.status # 200
            THEN <<"LeetCode API returned status ", StatusStr(answer.status)>>
            ELSE <<"No daily challenge data found">>
    IN  IF answer.net = "http" /\ answer.status = 200 /\ answer.has_data
        THEN Return([title |-> answer.title])
        ELSE Raise(PlainException(
                 <<"Failed to fetch LeetCode POTD: ">> \o failure))

\* get_potd_status had it taken the problem of the day as solved
get_potd_status_solved(username, answer) ==
    LET potd_data == get_daily_challenge(answer)
    IN  IF potd_data.raised
        THEN Raise(HTTPException(500,
                 <<"Error checking LeetCode POTD: ">> \o Str(potd_data.exc)))
        ELSE Return([username |-> username,
                     potd_solved |-> TRUE,
                     potd_title |-> potd_data.value.title])

get_potd_status(username, answer) ==
    LET potd_data == get_daily_challenge(answer)
    IN  IF potd_data.raised
        THEN Raise(HTTPException(500,
                 <<"Error checking LeetCode POTD: ">> \o Str(potd_data.exc)))
        ELSE Return([username |-> username,
                     potd_solved |-> FALSE,
                     potd_title |-> potd_data.value.title])

----------------------------------------------------------------------------
(* NotificationScheduler.check_and_notify_user *)

SupportedPlatforms == {"github", "leetcode"}

\* what the upstream of a platform may answer; no probe exists for a
\* platform that is not supported, and none is called
NoAnswer == [net |-> "none", status |-> 0]

\* the upstream answered 200 with a body the probe can use
Healthy(a) ==
    /\ a.net = "http"
    /\ a.status = 200
    /\ ("has_data" \in DOMAIN a => a.has_data)
Answers(platform) ==
    CASE platform = "github" -> GitHubAnswers
      [] platform = "leetcode" -> LeetCodeAnswers
      [] OTHER -> {NoAnswer}

\* the probe call never ends: self.session.post of get_daily_challenge is
\* given no timeout and waits for an answer as long as it takes
Hangs(platform, answer) == platform = "leetcode" /\ answer.net = "silent"

\* the ticks a probe call takes: to the client's timeout when no answer
\* comes, up to the bound otherwise
ProbeTicks(answer) ==
    IF answer.net = "silent" THEN {TimeoutTicks} ELSE 0..MaxProbeTicks

\* the probe call of the platform's branch: lines 23 and 34
Probe(username, platform, answer, t) ==
    CASE platform = "github" -> check_commits_today(username, answer, t)
      [] platform = "leetcode" -> get_potd_status(username, answer)
      [] OTHER -> Return([username |-> username])

\* the except clause: the exception becomes the outcome
ErrorResult(e) == [status |-> "error", error |-> Str(e)]

\* check_and_notify_user had the reminders not interpolated the username
check_and_notify_user_anonymous(username, platform, answer, t) ==
    LET status == Probe(username, platform, answer, t)
    IN  IF status.raised THEN ErrorResult(status.exc)
        ELSE IF platform = "github" /\ ~status.value.has_commits_today
        THEN [type |-> "github_reminder",
              message |-> <<"Hey! You haven't made any commits today. Time to code!">>,
              status |-> "pending"]
        ELSE IF platform = "leetcode" /\ ~status.value.potd_solved
        THEN [type |-> "leetcode_reminder",
              message |-> <<"Hey! Today's LeetCode POTD '",
                            status.value.potd_title, "' is waiting for you!">>,
              status |-> "pending"]
        ELSE [status |-> "completed"]

check_and_notify_user(username, platform, answer, t) ==
    LET status == Probe(username, platform, answer, t)
    IN  IF status.raised THEN ErrorResult(status.exc)
        ELSE IF platform = "github" /\ ~status.value.has_commits_today
        THEN [type |-> "github_reminder",
              message |-> <<"Hey ", username,
                            "! You haven't made any commits today. Time to code!">>,
              status |-> "pending"]
        ELSE IF platform = "leetcode" /\ ~status.value.potd_solved
        THEN [type |-> "leetcode_reminder",
              message |-> <<"Hey ", username, "! Today's LeetCode POTD '",
                            status.value.potd_title, "' is waiting for you!">>,
              status |-> "pending"]
        ELSE [status |-> "completed"]

----------------------------------------------------------------------------
(* State *)

VARIABLES
    now,                \* the wall clock, in ticks
    triggers,           \* db.triggers, in insertion order
    notification_logs,  \* db.notification_logs, in insertion order
    running,            \* self.running
    jobs,               \* schedule.jobs of the default scheduler
    pc,                 \* where the thread in start_scheduler stands
    pending,            \* run_pending: the runnable jobs still to run
    due,                \* process_triggers: the triggers still to process
    probe,              \* history: the probe call just made, its upstream
                        \* answer and what it returned or raised
    result,             \* the outcome check_and_notify_user returned
    starts,             \* history: the tick of each call of start_scheduler
    faults,             \* history: failed probe calls and failed database calls
    calls,              \* history: calls of the trigger routes after boot
    created,            \* history: every trigger ever created, by id
    cycles,             \* history: one entry per call of process_triggers
    stopping,           \* history: stop_scheduler was called since the
                        \* latest call of start_scheduler began
    other               \* a second NotificationScheduler of the process

vars == <<now, triggers, notification_logs, running, jobs, pc, pending, due,
          probe, result, starts, faults, calls, created, cycles, stopping,
          other>>

\* the clock at boot, 23:58:00 of day 0, and the moments the scheduler
\* process may come up: on the minute and ten seconds before the next
BootTick == (23 * 60 + 58) * TicksPerMinute
BootTicks == {BootTick, BootTick + TicksPerMinute - 1}

\* what a client may post to /api/triggers (id and created_at are filled in
\* by the defaults of NotificationTrigger)
TriggerInput(platform, username, trigger_time, enabled) ==
    [platform |-> platform, username |-> username,
     trigger_time |-> trigger_time, enabled |-> enabled]

TriggerInputs ==
    {TriggerInput("github", "alice", T2359, TRUE),
     TriggerInput("leetcode", "bob", T2359, TRUE),
     TriggerInput("gitlab", "alice", T2359, TRUE),
     TriggerInput("github", "bob", T2359, FALSE),
     TriggerInput("github", "bob", T0000, TRUE),
     TriggerInput("leetcode", "alice", <<"0", ":", "0", "0">>, TRUE)}

\* NotificationTrigger(**body): the id is a fresh uuid4, here the next number
NotificationTrigger(input, id) ==
    [id |-> id, platform |-> input.platform, username |-> input.username,
     trigger_time |-> input.trigger_time, enabled |-> input.enabled]

\* the store after the posts of `inputs`, in this order
StoreOf(inputs) == [i \in 1..Len(inputs) |-> NotificationTrigger(inputs[i], i)]

\* the stores the model boots with: what earlier posts left in db.triggers
InitialStores ==
    {StoreOf(<<>>),
     StoreOf(<<TriggerInput("github", "alice", T2359, TRUE),
               TriggerInput("leetcode", "bob", T2359, TRUE),
               TriggerInput("gitlab", "alice", T2359, TRUE)>>),
     StoreOf(<<TriggerInput("gitlab", "alice", T2359, TRUE),
               TriggerInput("github", "bob", T2359, FALSE)>>),
     StoreOf(<<TriggerInput("github", "bob", T0000, TRUE),
               TriggerInput("leetcode", "alice", <<"0", ":", "0", "0">>, TRUE)>>)}

NoResult == [status |-> "none"]
\* no second NotificationScheduler has been started
NoOther == [pc |-> "idle", running |-> FALSE, wake |-> 0]
NoProbe == [answer |-> NoAnswer, status |-> Return(<<>>)]

Init ==
    /\ now \in BootTicks
    /\ triggers \in InitialStores
    /\ notification_logs = <<>>
    /\ running = FALSE
    /\ jobs = <<>>
    /\ pc = "idle"
    /\ pending = <<>>
    /\ due = <<>>
    /\ probe = NoProbe
    /\ result = NoResult
    /\ starts = <<>>
    /\ faults = [probe |-> 0, store |-> 0]
    /\ calls = 0
    /\ created = triggers
    /\ cycles = <<>>
    /\ stopping = FALSE
    /\ other = NoOther

----------------------------------------------------------------------------
(* The trigger routes of server.py *)

\* POST /api/triggers
create_trigger(input) ==
    /\ calls < MaxClientCalls
    /\ calls' = calls + 1
    /\ LET trigger == NotificationTrigger(input, Len(created) + 1)
       IN  /\ triggers' = Append(triggers, trigger)
           /\ created' = Append(created, trigger)
    /\ UNCHANGED <<now, notification_logs, running, jobs, pc, pending, due,
                   probe, result, starts, faults, cycles, stopping, other>>

\* delete_one({"id": trigger_id}): the first document with the id goes
RECURSIVE delete_one(_, _)
delete_one(docs, id) ==
    IF docs = <<>> THEN <<>>
    ELSE IF Head(docs).id = id THEN Tail(docs)
    ELSE <<Head(docs)>> \o delete_one(Tail(docs), id)

\* DELETE /api/triggers/{trigger_id}, for an id that is in the store (an id
\* that is not gets 404 and changes nothing)
delete_trigger(id) ==
    /\ \E i \in 1..Len(triggers) : triggers[i].id = id
    /\ calls < MaxClientCalls
    /\ calls' = calls + 1
    /\ triggers' = delete_one(triggers, id)
    /\ UNCHANGED <<now, notification_logs, running, jobs, pc, pending, due,
                   probe, result, starts, faults, created, cycles, stopping,
                   other>>

----------------------------------------------------------------------------
(* The schedule library, as start_scheduler uses it *)

\* Job.should_run: datetime.now() >= self.next_run
should_run(job, t) == t >= job.next_run

\* the jobs of `js` (indices into jobs) in the order sorted() gives them:
\* by next_run, jobs of equal next_run in the order of schedule.jobs
RECURSIVE sorted(_, _)
sorted(js, all) ==
    IF js = {} THEN <<>>
    ELSE LET first == CHOOSE j \in js :
                 \A k \in js :
                     \/ all[j].next_run < all[k].next_run
                     \/ (all[j].next_run = all[k].next_run /\ j <= k)
         IN  <<first>> \o sorted(js \ {first}, all)

\* run_pending: the runnable jobs, fixed when the call begins
runnable_jobs(t) ==
    sorted({j \in 1..Len(jobs) : should_run(jobs[j], t)}, jobs)

\* schedule.every().minute.do(job_func) at tick t: the job as it is added to
\* the jobs of the default scheduler, which the schedule module holds for the
\* whole process; owner tells whose process_triggers the job function calls
every_minute_do(owner, t) == [next_run |-> t + JobIntervalTicks, owner |-> owner]

\* Job._schedule_next_run after the job function returned at tick t
schedule_next_run(job, t) == [job EXCEPT !.next_run = t + JobIntervalTicks]

\* the clock may reach tick t only if the thread of the second instance,
\* when it has one, is not kept from its loop meanwhile: a loop test is made
\* at once, a sleep ends within the drift
OtherOnTime(t) ==
    t > now =>
        /\ other.pc # "loop"
        /\ other.pc = "sleep" => t <= other.wake + MaxDrift

----------------------------------------------------------------------------
(* NotificationScheduler.process_triggers *)

\* the filter had it left the enabled flag out
matches_any(trigger, current_time) ==
    trigger.trigger_time = current_time

\* the filter {"trigger_time": current_time, "enabled": True}
matches(trigger, current_time) ==
    trigger.trigger_time = current_time /\ trigger.enabled = TRUE

\* to_list(length): at most length documents, in the cursor's order
to_list(docs, length) ==
    IF Len(docs) <= length THEN docs ELSE SubSeq(docs, 1, length)

\* the query had it left out the triggers already recorded for this HH:MM
find_due_once(current_time) ==
    to_list(SelectSeq(triggers, LAMBDA d :
                /\ matches(d, current_time)
                /\ ~\E i \in 1..Len(notification_logs) :
                       /\ notification_logs[i].trigger_id = d.id
                       /\ cycles[notification_logs[i].cycle].current_time
                              = current_time),
            ToListLimit)

\* db.triggers.find(...).to_list(1000)
find_due(current_time) ==
    to_list(SelectSeq(triggers, LAMBDA d : matches(d, current_time)),
            ToListLimit)

\* insert_one had notification_logs been a collection capped at one document
insert_one_capped(docs, doc) == <<doc>>

\* db.notification_logs.insert_one(doc): the document is added at the end
insert_one(docs, doc) == Append(docs, doc)

\* the document of lines 71-77; cycle and probe are history, not fields of
\* the code's document
notification_log(trigger, res, t) ==
    [trigger_id |-> trigger.id, username |-> trigger.username,
     platform |-> trigger.platform, checked_at |-> t, result |-> res,
     cycle |-> Len(cycles), probe |-> probe]

\* the job function has returned at tick t: the job is rescheduled and
\* run_pending goes on to the next runnable job, or returns to the sleep
FinishJob(t) ==
    /\ jobs' = [jobs EXCEPT ![Head(pending)] = schedule_next_run(@, t)]
    /\ pending' = Tail(pending)
    /\ pc' = IF Tail(pending) = <<>> THEN "sleep" ELSE "job"

\* the except clause had it raised the exception again: it escapes from the
\* job function through run_pending and start_scheduler, and the process of
\* __main__, which catches KeyboardInterrupt only, ends
ExceptReraised(t) ==
    /\ due' = <<>>
    /\ pc' = "crashed"
    /\ UNCHANGED <<jobs, pending>>

\* lines 81-82: the exception raised inside the try at tick t is logged and
\* process_triggers returns as after any cycle
ExceptLogged(t) ==
    /\ due' = <<>>
    /\ FinishJob(t)

Ids(docs) == {docs[i].id : i \in 1..Len(docs)}

\* lines 53-61: the clock is read and the due triggers are fetched. The
\* query may raise (store unreachable): line 81 catches it, the cycle ends
ProcessTriggersFind ==
    /\ pc = "job"
    /\ LET current_time == Strftime(now)
           entry == [minute |-> MinuteOf(now), current_time |-> current_time,
                     run |-> Len(starts), job |-> jobs[Head(pending)].owner,
                     found |-> TRUE,
                     matching |-> {d \in Ids(triggers) :
                         \E i \in 1..Len(triggers) :
                             /\ triggers[i].id = d
                             /\ triggers[i].enabled
                             /\ triggers[i].trigger_time = current_time},
                     selected |-> <<>>, raised |-> {}, failed |-> 0,
                     done |-> FALSE]
       IN  \/ /\ due' = find_due(current_time)
              /\ IF due' = <<>>
                 THEN /\ FinishJob(now)
                      /\ cycles' = Append(cycles,
                             [entry EXCEPT !.done = TRUE])
                 ELSE /\ pc' = "check"
                      /\ cycles' = Append(cycles,
                             [entry EXCEPT !.selected =
                                 [i \in 1..Len(due') |-> due'[i].id]])
                      /\ UNCHANGED <<jobs, pending>>
              /\ UNCHANGED faults
           \/ /\ faults.store < MaxStoreFaults
              /\ faults' = [faults EXCEPT !.store = @ + 1]
              /\ ExceptLogged(now)
              /\ cycles' = Append(cycles,
                     [entry EXCEPT !.found = FALSE, !.done = TRUE])
    /\ UNCHANGED <<now, triggers, notification_logs, running, probe, result,
                   starts, calls, created, stopping, other>>

\* check_and_notify_user had it kept a log of the outcomes of its own
NotifiedIsLogged ==
    /\ notification_logs' = Append(notification_logs,
           notification_log(Head(due), result', now'))
    /\ UNCHANGED triggers

\* lines 17-48: check_and_notify_user and the probes it calls have no
\* statement that writes to db
NoDatabaseWrite == UNCHANGED <<triggers, notification_logs>>

\* line 68: the probe is called and takes its time, or never comes back
CheckAndNotify ==
    /\ pc = "check"
    /\ LET trigger == Head(due)
       IN  \E a \in Answers(trigger.platform) :
               /\ IF a = NoAnswer \/ Healthy(a) THEN UNCHANGED faults
                  ELSE /\ faults.probe < MaxProbeFaults
                       /\ faults' = [faults EXCEPT !.probe = @ + 1]
               /\ IF Hangs(trigger.platform, a)
                  THEN /\ probe' = [probe EXCEPT !.answer = a]
                       /\ pc' = "hung"
                       /\ UNCHANGED <<now, result>>
                  ELSE /\ \E d \in ProbeTicks(a) :
                              /\ now + d <= BootTick + Horizon
                              /\ OtherOnTime(now + d)
                              /\ now' = now + d
                       /\ probe' = [answer |-> a,
                                    status |-> Probe(trigger.username,
                                        trigger.platform, a, now)]
                       /\ result' = check_and_notify_user(trigger.username,
                                        trigger.platform, a, now)
                       /\ pc' = "insert"
    /\ cycles' = IF /\ Head(due).platform \in SupportedPlatforms
                     /\ pc' = "insert"
                     /\ probe'.status.raised
                  THEN [cycles EXCEPT ![Len(cycles)].raised =
                            @ \cup {Head(due).id}]
                  ELSE cycles
    /\ NoDatabaseWrite
    /\ UNCHANGED <<running, jobs, pending, due, starts, calls, created,
                   stopping, other>>

\* lines 71-79: the record is appended and the loop goes on; or insert_one
\* raises, line 81 catches it and the cycle ends
InsertOne ==
    /\ pc = "insert"
    /\ \/ /\ notification_logs' = insert_one(notification_logs,
                 notification_log(Head(due), result, now))
          /\ due' = Tail(due)
          /\ IF Tail(due) = <<>>
             THEN /\ FinishJob(now)
                  /\ cycles' = [cycles EXCEPT ![Len(cycles)].done = TRUE]
             ELSE /\ pc' = "check"
                  /\ UNCHANGED <<jobs, pending, cycles>>
          /\ UNCHANGED faults
       \/ /\ faults.store < MaxStoreFaults
          /\ faults' = [faults EXCEPT !.store = @ + 1]
          /\ ExceptLogged(now)
          /\ cycles' = [cycles EXCEPT ![Len(cycles)].done = TRUE,
                                      ![Len(cycles)].failed = Head(due).id]
          /\ UNCHANGED notification_logs
    /\ probe' = NoProbe
    /\ result' = NoResult
    /\ UNCHANGED <<now, triggers, running, starts, calls, created, stopping,
                   other>>

----------------------------------------------------------------------------
(* NotificationScheduler.start_scheduler and stop_scheduler *)

\* line 89: a job is added to the default scheduler, first due in a minute
StartSchedule ==
    /\ pc = "idle"
    /\ jobs' = Append(jobs, every_minute_do(1, now))
    /\ starts' = Append(starts, now)
    /\ stopping' = FALSE
    /\ pc' = "starting"
    /\ UNCHANGED <<now, triggers, notification_logs, running, pending, due,
                   probe, result, faults, calls, created, cycles, other>>

\* line 91
StartRunning ==
    /\ pc = "starting"
    /\ running' = TRUE
    /\ pc' = "loop"
    /\ UNCHANGED <<now, triggers, notification_logs, jobs, pending, due,
                   probe, result, starts, faults, calls, created, cycles,
                   stopping, other>>

\* lines 93-94: the loop's test, then run_pending collects the runnable jobs
RunPending ==
    /\ pc = "loop"
    /\ running
    /\ pending' = runnable_jobs(now)
    /\ pc' = IF pending' = <<>> THEN "sleep" ELSE "job"
    /\ UNCHANGED <<now, triggers, notification_logs, running, jobs, due,
                   probe, result, starts, faults, calls, created, cycles,
                   stopping, other>>

\* line 93: the loop's test fails and start_scheduler returns
LoopExit ==
    /\ pc = "loop"
    /\ ~running
    /\ pc' = "idle"
    /\ UNCHANGED <<now, triggers, notification_logs, running, jobs, pending,
                   due, probe, result, starts, faults, calls, created, cycles,
                   stopping, other>>

\* line 95: time.sleep(30), which may take longer
Sleep ==
    /\ pc = "sleep"
    /\ \E drift \in 0..MaxDrift :
           /\ now + SleepTicks + drift <= BootTick + Horizon
           /\ OtherOnTime(now + SleepTicks + drift)
           /\ now' = now + SleepTicks + drift
    /\ pc' = "loop"
    /\ UNCHANGED <<triggers, notification_logs, running, jobs, pending, due,
                   probe, result, starts, faults, calls, created, cycles,
                   stopping, other>>

\* stop_scheduler had it flipped the flag instead of clearing it
StopSchedulerToggle ==
    /\ running' = ~running
    /\ stopping' = TRUE
    /\ UNCHANGED <<now, triggers, notification_logs, jobs, pc, pending, due,
                   probe, result, starts, faults, calls, created, cycles,
                   other>>

\* stop_scheduler, called from another thread at any moment
StopScheduler ==
    /\ running' = FALSE
    /\ stopping' = TRUE
    /\ UNCHANGED <<now, triggers, notification_logs, jobs, pc, pending, due,
                   probe, result, starts, faults, calls, created, cycles,
                   other>>

\* lines 125-129: Ctrl-C while start_scheduler runs. KeyboardInterrupt is
\* not an Exception, so neither except clause of the cycle catches it: it
\* leaves whatever start_scheduler was doing, the handler calls
\* stop_scheduler and the process ends
KeyboardInterrupt ==
    /\ pc \in {"starting", "loop", "job", "check", "insert", "sleep", "hung"}
    /\ pc' = "exited"
    /\ running' = FALSE
    /\ stopping' = TRUE
    /\ pending' = <<>>
    /\ due' = <<>>
    /\ probe' = NoProbe
    /\ result' = NoResult
    /\ UNCHANGED <<now, triggers, notification_logs, jobs, starts, faults,
                   calls, created, cycles, other>>

----------------------------------------------------------------------------

\* start_scheduler is called for the first time in the process
FirstStart == Len(starts) = 0 /\ StartSchedule

\* start_scheduler is called again after it returned
Restart == Len(starts) >= 1 /\ Len(starts) < MaxStarts /\ StartSchedule

CreateTrigger == \E input \in TriggerInputs : create_trigger(input)

DeleteTrigger == \E id \in Ids(triggers) : delete_trigger(id)

\* one run of the scheduler process (python notification_scheduler.py),
\* with the API server's clients posting and deleting triggers
Next ==
    \/ CreateTrigger
    \/ DeleteTrigger
    \/ FirstStart
    \/ StartRunning
    \/ RunPending
    \/ LoopExit
    \/ ProcessTriggersFind
    \/ CheckAndNotify
    \/ InsertOne
    \/ Sleep
    \/ StopScheduler
    \/ KeyboardInterrupt

Spec == Init /\ [][Next]_vars

\* start_scheduler called again after it returned, against a store no
\* client changes
NextLifecycle ==
    \/ FirstStart
    \/ Restart
    \/ StartRunning
    \/ RunPending
    \/ LoopExit
    \/ ProcessTriggersFind
    \/ CheckAndNotify
    \/ InsertOne
    \/ Sleep
    \/ StopScheduler

SpecLifecycle == Init /\ [][NextLifecycle]_vars

----------------------------------------------------------------------------
(* A second NotificationScheduler of the same process, its start_scheduler
   on a thread of its own. The schedule module keeps one list of jobs for
   the process, so the job of the second instance joins the list the first
   instance's run_pending reads. The steps below follow the second thread
   while its run_pending finds nothing to run; the cycles it would run
   itself are not followed. *)

\* start_scheduler of the second instance: the job is added and running set
OtherStart ==
    /\ other.pc = "idle"
    /\ jobs' = Append(jobs, every_minute_do(2, now))
    /\ other' = [pc |-> "loop", running |-> TRUE, wake |-> now]
    /\ UNCHANGED <<now, triggers, notification_logs, running, pc, pending,
                   due, probe, result, starts, faults, calls, created, cycles,
                   stopping>>

\* the loop of the second instance: run_pending with no job to run, then
\* time.sleep(30) begins
OtherRunPending ==
    /\ other.pc = "loop"
    /\ other.running
    /\ runnable_jobs(now) = <<>>
    /\ other' = [other EXCEPT !.pc = "sleep", !.wake = now + SleepTicks]
    /\ UNCHANGED <<now, triggers, notification_logs, running, jobs, pc,
                   pending, due, probe, result, starts, faults, calls, created,
                   cycles, stopping>>

\* time.sleep(30) of the second instance returns
OtherWake ==
    /\ other.pc = "sleep"
    /\ now >= other.wake
    /\ other' = [other EXCEPT !.pc = "loop"]
    /\ UNCHANGED <<now, triggers, notification_logs, running, jobs, pc,
                   pending, due, probe, result, starts, faults, calls, created,
                   cycles, stopping>>

\* stop_scheduler of the second instance
OtherStop ==
    /\ other.pc # "idle"
    /\ other' = [other EXCEPT !.running = FALSE]
    /\ UNCHANGED <<now, triggers, notification_logs, running, jobs, pc,
                   pending, due, probe, result, starts, faults, calls, created,
                   cycles, stopping>>

\* the loop test of the second instance fails and its start_scheduler
\* returns; the job it added stays in the list
OtherLoopExit ==
    /\ other.pc = "loop"
    /\ ~other.running
    /\ other' = [other EXCEPT !.pc = "returned"]
    /\ UNCHANGED <<now, triggers, notification_logs, running, jobs, pc,
                   pending, due, probe, result, starts, faults, calls, created,
                   cycles, stopping>>

NextInstances ==
    \/ FirstStart
    \/ StartRunning
    \/ RunPending
    \/ LoopExit
    \/ ProcessTriggersFind
    \/ CheckAndNotify
    \/ InsertOne
    \/ Sleep
    \/ StopScheduler
    \/ OtherStart
    \/ OtherRunPending
    \/ OtherWake
    \/ OtherStop
    \/ OtherLoopExit

SpecInstances == Init /\ [][NextInstances]_vars

----------------------------------------------------------------------------
(* GitHubAPIClient.check_commits_today called on its own, at some time of
   some day, on some answer of the events feed *)

\* the longest events feed drawn
MaxFeedLen == 2

\* the ticks check_commits_today is called at: late on day 0, at the
\* midnight that begins day 1, at noon of day 1
EvaluationTicks == {BootTick, TicksPerDay, TicksPerDay + Noon}

\* the events drawn: pushes and other events, of noon of day 0, of the last
\* tick of day 0, of the midnight that begins day 1 and of noon of day 1,
\* their payload listing no commit, one or two
ProbeEvents ==
    {Event(type, created_at, commits) :
        type \in {"PushEvent", "WatchEvent"},
        created_at \in {Noon, TicksPerDay - 1, TicksPerDay,
                        TicksPerDay + Noon},
        commits \in 0..2}

ProbeFeeds == UNION {[1..n -> ProbeEvents] : n \in 0..MaxFeedLen}

ProbeAnswers ==
    {[net |-> "http", status |-> 200, events |-> f] : f \in ProbeFeeds}
    \cup {a \in GitHubAnswers : a.events = <<>>}

InitProbe ==
    /\ now \in EvaluationTicks
    /\ triggers = <<>>
    /\ notification_logs = <<>>
    /\ running = FALSE
    /\ jobs = <<>>
    /\ pc = "idle"
    /\ pending = <<>>
    /\ due = <<>>
    /\ probe \in {[answer |-> a, status |-> Return(<<>>)] : a \in ProbeAnswers}
    /\ result = NoResult
    /\ starts = <<>>
    /\ faults = [probe |-> 0, store |-> 0]
    /\ calls = 0
    /\ created = <<>>
    /\ cycles = <<>>
    /\ stopping = FALSE
    /\ other = NoOther

\* check_commits_today(username) is called and ends
CheckCommitsToday ==
    /\ pc = "idle"
    /\ \E username \in {"alice", "bob"} :
           probe' = [probe EXCEPT
                        !.status = check_commits_today(username,
                                                       probe.answer, now)]
    /\ pc' = "probed"
    /\ UNCHANGED <<now, triggers, notification_logs, running, jobs, pending,
                   due, result, starts, faults, calls, created, cycles,
                   stopping, other>>

NextProbe == CheckCommitsToday

SpecProbe == InitProbe /\ [][NextProbe]_vars

----------------------------------------------------------------------------
(* The trigger routes of server.py as a client calls them, with their
   responses; the body of a post may carry an id of the client's choosing,
   which NotificationTrigger takes in place of a fresh uuid4 *)

\* calls of the trigger routes a client makes
MaxRouteCalls == 3

\* an id a client makes up
OwnId == 100

\* the ids a client may put in the body of a post: one of its own, or one it
\* has seen on a trigger the routes returned
CallerIds == {OwnId} \cup Ids(created)

\* the ids a client may ask delete for
AskedIds == CallerIds \cup {OwnId + 1}

\* no route has answered yet
NoResponse == [route |-> "none", status |-> 0]

InitRoutes ==
    /\ now = BootTick
    /\ triggers \in InitialStores
    /\ notification_logs = <<>>
    /\ running = FALSE
    /\ jobs = <<>>
    /\ pc = "idle"
    /\ pending = <<>>
    /\ due = <<>>
    /\ probe = NoProbe
    /\ result = NoResponse
    /\ starts = <<>>
    /\ faults = [probe |-> 0, store |-> 0]
    /\ calls = 0
    /\ created = triggers
    /\ cycles = <<>>
    /\ stopping = FALSE
    /\ other = NoOther

\* what no trigger route touches
RouteFrame ==
    UNCHANGED <<now, notification_logs, running, jobs, pc, pending, due,
                probe, starts, faults, cycles, stopping, other>>

\* POST /api/triggers with a body that has no id (the default makes one) or
\* carries one: the document is inserted and the trigger returned
PostTrigger ==
    /\ calls < MaxRouteCalls
    /\ calls' = calls + 1
    /\ \E input \in TriggerInputs, id \in {Len(created) + 1} \cup CallerIds :
           LET trigger == NotificationTrigger(input, id)
           IN  /\ triggers' = insert_one(triggers, trigger)
               /\ created' = Append(created, trigger)
               /\ result' = [route |-> "post", status |-> 200,
                             body |-> trigger]
    /\ RouteFrame

\* GET /api/triggers/{username}
get_user_triggers(username) ==
    to_list(SelectSeq(triggers, LAMBDA d : d.username = username),
            ToListLimit)

GetUserTriggers ==
    /\ calls < MaxRouteCalls
    /\ calls' = calls + 1
    /\ \E username \in {"alice", "bob"} :
           result' = [route |-> "get", status |-> 200, username |-> username,
                      body |-> get_user_triggers(username)]
    /\ UNCHANGED <<triggers, created>>
    /\ RouteFrame

\* DELETE /api/triggers/{trigger_id}: delete_one, and 404 when it deleted
\* nothing
DeleteTriggerById ==
    /\ calls < MaxRouteCalls
    /\ calls' = calls + 1
    /\ \E id \in AskedIds :
           LET deleted_count == IF id \in Ids(triggers) THEN 1 ELSE 0
           IN  /\ triggers' = delete_one(triggers, id)
               /\ result' = [route |-> "delete", id |-> id,
                             status |-> IF deleted_count = 0 THEN 404
                                        ELSE 200]
    /\ UNCHANGED created
    /\ RouteFrame

NextRoutes ==
    \/ PostTrigger
    \/ GetUserTriggers
    \/ DeleteTriggerById

SpecRoutes == InitRoutes /\ [][NextRoutes]_vars

----------------------------------------------------------------------------
(* Vocabulary of the properties *)

Cycles == 1..Len(cycles)
Logs == 1..Len(notification_logs)

\* the records cycle c appended for trigger id
RecordsOf(c, id) ==
    {i \in Logs : /\ notification_logs[i].cycle = c
                  /\ notification_logs[i].trigger_id = id}

\* the ids cycle c selected
Selected(c) == {cycles[c].selected[k] : k \in 1..Len(cycles[c].selected)}

\* every evaluation whose outcome is known: the recorded ones and the one
\* whose record is about to be appended
Evaluations ==
    {[username |-> notification_logs[i].username,
      platform |-> notification_logs[i].platform,
      probe |-> notification_logs[i].probe,
      result |-> notification_logs[i].result] : i \in Logs}
    \cup (IF pc = "insert"
          THEN {[username |-> Head(due).username,
                 platform |-> Head(due).platform,
                 probe |-> probe, result |-> result]}
          ELSE {})

\* the probe of the evaluation was called and raised
ProbeFailed(e) == e.platform \in SupportedPlatforms /\ e.probe.status.raised

\* the probe of the evaluation returned, and what it reported
ProbeReturned(e) == e.platform \in SupportedPlatforms /\ ~e.probe.status.raised
ActivityPresent(e) ==
    /\ ProbeReturned(e)
    /\ IF e.platform = "github" THEN e.probe.status.value.has_commits_today
       ELSE e.probe.status.value.potd_solved
ActivityAbsent(e) == ProbeReturned(e) /\ ~ActivityPresent(e)

\* what tells the failure kind of an upstream answer apart: the transport
\* error's message, the HTTP status, or the words for a body without data
KindMark(a) ==
    IF a.net = "down" THEN ConnectError[1]
    ELSE IF a.net = "silent" THEN ReadTimeout[1]
    ELSE IF a.status # 200 THEN StatusStr(a.status)
    ELSE "No daily challenge data found"

----------------------------------------------------------------------------
(* C1 *)

\* C1: in every finished cycle, every trigger the query returned has exactly
\* one record of that cycle (the trigger whose own append raised aside: no
\* code could have recorded it).
C1_ExactlyOneRecordPerDueTrigger ==
    \A c \in Cycles :
        cycles[c].done =>
            \A id \in Selected(c) \ {cycles[c].failed} :
                Cardinality(RecordsOf(c, id)) = 1

----------------------------------------------------------------------------
(* C2 *)

----------------------------------------------------------------------------
(* C3 *)

\* C3: in every cycle whose query answered, the triggers selected are exactly
\* the enabled triggers of the store whose trigger_time equals the cycle's
\* HH:MM, however many they are.
C3_SelectedIffEnabledAndDue ==
    \A c \in Cycles : cycles[c].found => Selected(c) = cycles[c].matching

----------------------------------------------------------------------------
(* C4 *)

\* the minute of the latest call of start_scheduler
StartMinute == MinuteOf(starts[Len(starts)])

\* C4: while start_scheduler runs, every minute that has elapsed in full
\* since it was called has had a cycle that computed it.
C4_NoMinuteMissed ==
    (running /\ pc \notin {"idle", "starting"}) =>
        \A m \in (StartMinute + 1)..(MinuteOf(now) - 1) :
            \E c \in Cycles : cycles[c].minute = m

----------------------------------------------------------------------------
(* C5 *)

----------------------------------------------------------------------------
(* C6 *)

\* the probe-failure handling of check_and_notify_user by itself: a probe
\* that fails yields the outcome error whose description still tells the
\* failure kind, and the exception does not escape: the cycle stands at the
\* append of that trigger's record with the triggers after it still queued
ProbeFailureContained ==
    /\ \A e \in Evaluations :
           ProbeFailed(e) =>
               /\ e.result.status = "error"
               /\ Contains(e.result.error, KindMark(e.probe.answer))
    /\ (pc = "insert" /\ probe.status.raised) =>
           /\ ~cycles[Len(cycles)].done
           /\ due # <<>>
           /\ \A k \in 1..Len(due) :
                  due[k].id =
                      cycles[Len(cycles)].selected[
                          Len(cycles[Len(cycles)].selected) - Len(due) + k]

\* C6: a probe that fails yields the outcome error whose description still
\* tells the failure kind, no exception escapes to the cycle, and the cycle
\* goes on to record every trigger it selected after the one whose probe
\* failed.
C6_ProbeFailureRecordedAsError ==
    /\ ProbeFailureContained
    /\ \A c \in Cycles :
           cycles[c].done =>
               \A k \in 1..Len(cycles[c].selected) :
                   cycles[c].selected[k] \in cycles[c].raised =>
                       \A j \in (k + 1)..Len(cycles[c].selected) :
                           RecordsOf(c, cycles[c].selected[j]) # {}

\* a finished cycle recorded the error of its first trigger's failed probe
\* and went on to record its second trigger
C6_Witness ==
    \E c \in Cycles :
        /\ cycles[c].done
        /\ Len(cycles[c].selected) = 2
        /\ \E i \in RecordsOf(c, cycles[c].selected[1]) :
               /\ notification_logs[i].probe.status.raised
               /\ notification_logs[i].result.status = "error"
        /\ RecordsOf(c, cycles[c].selected[2]) # {}

----------------------------------------------------------------------------
(* C7 *)

\* C7: when the append of one trigger's record raises, every other trigger
\* the cycle selected still gets its record.
C7_AppendFailureDoesNotAbortCycle ==
    \A c \in Cycles :
        (cycles[c].done /\ cycles[c].failed # 0) =>
            \A id \in Selected(c) \ {cycles[c].failed} :
                RecordsOf(c, id) # {}

----------------------------------------------------------------------------
(* C8 *)

\* C8: the outcome of evaluating a trigger of an unsupported platform is
\* error.
C8_UnknownPlatformIsError ==
    \A e \in Evaluations :
        e.platform \notin SupportedPlatforms => e.result.status = "error"

----------------------------------------------------------------------------
(* C9 *)

\* C9: when the probe returns and reports no activity today, the outcome is
\* pending (the reminder is fired) with a message that is not empty and
\* holds the username and, for leetcode, the title of the day's problem.
C9_AbsentActivityFiresReminder ==
    \A e \in Evaluations :
        ActivityAbsent(e) =>
            /\ e.result.status = "pending"
            /\ "message" \in DOMAIN e.result
            /\ e.result.message # <<>>
            /\ Contains(e.result.message, e.username)
            /\ e.platform = "leetcode" =>
                   Contains(e.result.message, e.probe.answer.title)

\* reminders of both platforms are on record
C9_Witness ==
    /\ \E i \in Logs :
           /\ notification_logs[i].platform = "github"
           /\ ~notification_logs[i].probe.status.raised
           /\ notification_logs[i].result.status = "pending"
    /\ \E i \in Logs :
           /\ notification_logs[i].platform = "leetcode"
           /\ ~notification_logs[i].probe.status.raised
           /\ notification_logs[i].result.status = "pending"

----------------------------------------------------------------------------
(* C10 *)

\* C10: when the probe returns and reports activity today the outcome is
\* completed and carries no message, and completed is the outcome of no
\* other evaluation.
C10_CompletedIffActivityPresent ==
    \A e \in Evaluations :
        /\ ActivityPresent(e) =>
               e.result.status = "completed" /\ "message" \notin DOMAIN e.result
        /\ e.result.status = "completed" => ActivityPresent(e)

----------------------------------------------------------------------------
(* C11 *)

\* the step in which the query of a cycle raises: the loop is as running as
\* it was, the log is untouched, and control is back in run_pending with the
\* job due again a minute later
QueryFailureStep ==
    (/\ pc = "job"
     /\ Len(cycles') = Len(cycles) + 1
     /\ ~cycles'[Len(cycles')].found) =>
        /\ running' = running
        /\ notification_logs' = notification_logs
        /\ pc' \in {"sleep", "job"}
        /\ jobs'[Head(pending)].next_run = now + JobIntervalTicks

\* a cycle whose query raised has ended with nothing selected and no record,
\* and the cycle after it, when its query answers, selects from the store as
\* any cycle does
QueryFailureContained ==
    \A c \in Cycles :
        ~cycles[c].found =>
            /\ cycles[c].done
            /\ Selected(c) = {}
            /\ \A i \in Logs : notification_logs[i].cycle # c
            /\ (c + 1 \in Cycles /\ cycles[c + 1].found) =>
                   /\ Selected(c + 1) \subseteq cycles[c + 1].matching
                   /\ Cardinality(cycles[c + 1].matching) <= ToListLimit =>
                          Selected(c + 1) = cycles[c + 1].matching

\* C11: when the trigger-store query of a cycle fails, the failure is caught
\* inside the cycle, no record is appended in that cycle, the loop stays
\* running, and the cycle of the next tick runs normally against the store.
C11_StoreQueryFailureContained ==
    []QueryFailureContained /\ [][QueryFailureStep]_vars

\* the query of one cycle raised, and the cycle of the next minute found its
\* due trigger and recorded it while the loop was still running
C11_Witness ==
    \E c \in Cycles :
        /\ ~cycles[c].found
        /\ c + 1 \in Cycles
        /\ cycles[c + 1].found /\ cycles[c + 1].done
        /\ cycles[c + 1].minute = cycles[c].minute + 1
        /\ \E i \in Logs : notification_logs[i].cycle = c + 1
        /\ running

----------------------------------------------------------------------------
(* C12 *)

\* once start_scheduler is over, no cycle it began is left unfinished
NoCycleCutShort ==
    pc \in {"idle", "exited"} => \A c \in Cycles : cycles[c].done

\* after stop_scheduler was called during a call of start_scheduler, no loop
\* test of that call passes on to a new cycle
NoCycleBegunAfterStop ==
    stopping => ~(pc = "loop" /\ pc' = "job")

\* C12: stop_scheduler only prevents new cycles: a cycle in flight runs to
\* completion, and once stop_scheduler has returned no new cycle begins,
\* also when the stop was issued while start_scheduler was initialising.
C12_StopOnlyPreventsNewCycles ==
    []NoCycleCutShort /\ [][NoCycleBegunAfterStop]_vars

----------------------------------------------------------------------------
(* C13 *)

\* start_scheduler returns only after a stop was requested during the call
ReturnsOnlyWhenStopped ==
    (pc = "loop" /\ pc' = "idle") => stopping

\* after a stop requested during the call, the cycle in flight and the sleep
\* that follows it are all that is left: the next loop test ends the call
FirstTestAfterStopReturns ==
    (stopping /\ pc = "loop" /\ pc' # "loop") => pc' \in {"idle", "exited"}

\* C13: start_scheduler never returns while no stop has been requested, and
\* after stop_scheduler is called during a run it returns after at most the
\* cycle in flight and one check interval.
C13_RunsUntilStoppedThenReturns ==
    [][ReturnsOnlyWhenStopped /\ FirstTestAfterStopReturns]_vars

----------------------------------------------------------------------------
(* C14 *)

\* C14: every probe call made during a cycle returns or fails even if the
\* upstream never answers, for the commit probe and the challenge probe: the
\* thread of the cycle is never left waiting without end in a probe call.
C14_EveryProbeCallEnds == pc # "hung"

----------------------------------------------------------------------------
(* C15 *)

\* the usernames of the triggers the model posts
Usernames == {"alice", "bob"}

\* C15: the challenge probe reports potd_solved false on every call that
\* returns, for every username and upstream answer, and the outcome of a
\* leetcode trigger is never completed: it is pending or error.
C15_ChallengeNeverCompleted ==
    /\ \A u \in Usernames, a \in LeetCodeAnswers :
           ~Hangs("leetcode", a) =>
               LET status == get_potd_status(u, a)
               IN  ~status.raised => status.value.potd_solved = FALSE
    /\ \A e \in Evaluations :
           e.platform = "leetcode" =>
               /\ ProbeReturned(e) => e.probe.status.value.potd_solved = FALSE
               /\ e.result.status \in {"pending", "error"}

\* a cycle has finished with the record of a leetcode trigger whose probe
\* got the problem of the day from the upstream
C15_Witness ==
    \E i \in Logs :
        /\ notification_logs[i].platform = "leetcode"
        /\ Healthy(notification_logs[i].probe.answer)
        /\ notification_logs[i].probe.status.value.potd_title \in Titles
        /\ cycles[notification_logs[i].cycle].done

----------------------------------------------------------------------------
(* C16 *)

----------------------------------------------------------------------------
(* C17 *)

\* the step that is the call of check_and_notify_user: from the head of the
\* loop body to the outcome (or into a probe call that does not end)
EvaluationStep == pc = "check" /\ pc' \in {"insert", "hung"}

\* C17: check_and_notify_user leaves the trigger store and the notification
\* log unchanged on every path; of the scheduler's own state it touches
\* nothing either: what it does is call the probe and return the outcome.
C17_EvaluationLeavesStoreAndLog ==
    [][EvaluationStep =>
          /\ triggers' = triggers
          /\ notification_logs' = notification_logs
          /\ running' = running
          /\ jobs' = jobs
          /\ due' = due]_vars

\* with a record already in the log and triggers in the store, an
\* evaluation has just returned the error outcome, after one that returned
\* a reminder
C17_Witness ==
    /\ pc = "insert"
    /\ result.status = "error"
    /\ triggers # <<>>
    /\ \E i \in Logs : notification_logs[i].result.status = "pending"

----------------------------------------------------------------------------
(* C18 *)

\* every record in the log stays where it is and as it is; a step adds at
\* most one record, and only the append of a cycle adds one
LogGrowsOnly ==
    /\ Len(notification_logs') >= Len(notification_logs)
    /\ \A i \in Logs : notification_logs'[i] = notification_logs[i]
    /\ Len(notification_logs') > Len(notification_logs) =>
           /\ Len(notification_logs') = Len(notification_logs) + 1
           /\ pc = "insert"

\* the store changes in the calls of the trigger routes only
StoreChangedByClientsOnly == triggers' # triggers => calls' = calls + 1

\* every record is that of a trigger its cycle selected, with the trigger's
\* id, username and platform
RecordsComeFromSelection ==
    \A i \in Logs :
        LET r == notification_logs[i]
        IN  /\ r.cycle \in Cycles
            /\ r.trigger_id \in Selected(r.cycle)
            /\ r.username = created[r.trigger_id].username
            /\ r.platform = created[r.trigger_id].platform

\* C18: the notification log is append-only and the trigger store is
\* read-only for the scheduler: a record once appended stays present and
\* unchanged, records come only from a cycle's evaluation of a trigger it
\* selected, and no step of a cycle creates, changes or deletes a trigger.
C18_LogAppendOnlyStoreReadOnly ==
    /\ []RecordsComeFromSelection
    /\ [][LogGrowsOnly /\ StoreChangedByClientsOnly]_vars

\* a cycle has finished with two records in the log, and a client has
\* changed the store meanwhile
C18_Witness ==
    /\ Len(notification_logs) >= 2
    /\ cycles[Len(cycles)].done
    /\ calls >= 1
    /\ triggers # created

----------------------------------------------------------------------------
(* C19 *)

\* C19: each cycle selects from the store as it is at the cycle's query:
\* every enabled trigger in the store at the query whose trigger_time is the
\* cycle's HH:MM, one just created included, is selected, and a trigger that
\* is not in the store at the query, one just deleted included, gets no
\* record of the cycle.
C19_SelectsFromStoreAtQuery ==
    \A c \in Cycles :
        cycles[c].found =>
            /\ cycles[c].matching \subseteq Selected(c)
            /\ \A i \in Logs :
                   notification_logs[i].cycle = c =>
                       notification_logs[i].trigger_id \in cycles[c].matching

----------------------------------------------------------------------------
(* C20 *)

\* every cycle the loop of the first instance executes is a call of the job
\* the first instance added, as when the instance is alone in the process
OwnJobsOnly == \A c \in Cycles : cycles[c].job = 1

\* stop_scheduler of one instance leaves the running flag of the other
StopIsPerInstance ==
    /\ running # running' => other'.running = other.running
    /\ other'.running # other.running => running' = running

\* C20: with several NotificationScheduler instances in one process, each
\* instance executes the cycles it would execute alone (those of its own
\* job), and stopping one instance does not stop another
C20_InstancesDoNotInterfere == []OwnJobsOnly /\ [][StopIsPerInstance]_vars

----------------------------------------------------------------------------
(* C21 *)

\* UTC midnight of the day tick t lies in
UtcMidnight(t) == t - (t % TicksPerDay)

\* the positions of the feed that hold a push event of the evaluation day
PushesOfToday ==
    {i \in 1..Len(probe.answer.events) :
        /\ probe.answer.events[i].type = "PushEvent"
        /\ probe.answer.events[i].created_at >= UtcMidnight(now)}

\* the commits the payloads at the positions in S list, taken together
RECURSIVE CommitsAt(_)
CommitsAt(S) ==
    IF S = {} THEN 0
    ELSE LET i == CHOOSE j \in S : TRUE
         IN  probe.answer.events[i].commits + CommitsAt(S \ {i})

\* check_commits_today has returned a status
CommitsChecked == pc = "probed" /\ ~probe.status.raised

\* C21 as stated: the commit probe reports has_commits_today as true if and
\* only if the fetched events contain at least one push event whose
\* timestamp is on or after UTC midnight of the evaluation day, and
\* commit_count is the number of commits counted
C21_ActivityIffPushToday ==
    CommitsChecked =>
        /\ probe.status.value.has_commits_today <=> PushesOfToday # {}
        /\ probe.status.value.commit_count = CommitsAt(PushesOfToday)

\* C21 amended: has_commits_today is true if and only if the push events
\* on or after UTC midnight of the evaluation day list at least one commit
\* between them; earlier events and events of other types never count, and
\* commit_count is the number of commits those push events list
C21_ActivityIffCommitsPushedToday ==
    CommitsChecked =>
        /\ probe.status.value.has_commits_today
               <=> \E i \in PushesOfToday : probe.answer.events[i].commits > 0
        /\ probe.status.value.commit_count = CommitsAt(PushesOfToday)

\* a feed whose push of the last tick of yesterday lists commits and whose
\* push of today lists none has been evaluated, and no activity is reported
C21_Witness ==
    /\ CommitsChecked
    /\ PushesOfToday # {}
    /\ \E i \in 1..Len(probe.answer.events) :
           /\ probe.answer.events[i].type = "PushEvent"
           /\ probe.answer.events[i].created_at = UtcMidnight(now) - 1
           /\ probe.answer.events[i].commits > 0
    /\ ~probe.status.value.has_commits_today
    /\ probe.status.value.commit_count = 0

----------------------------------------------------------------------------
(* C22 *)

\* stop_scheduler has been called and nothing has set the flag since
Stopped == stopping /\ ~running

\* a step in which the thread of start_scheduler does nothing and no client
\* changes the store: all such a step can be is a call of stop_scheduler
OutsideCallStep ==
    UNCHANGED <<now, triggers, notification_logs, jobs, pc, pending, due,
                probe, result, starts, faults, calls, created, cycles, other>>

\* a call of stop_scheduler that follows a call of stop_scheduler changes
\* nothing
StopAgainChangesNothing ==
    (Stopped /\ OutsideCallStep) => UNCHANGED <<running, stopping>>

\* after any call of stop_scheduler the flag is down: whatever the state of
\* the call, the state after it is the state one call leaves
StopLeavesStopped ==
    (OutsideCallStep /\ stopping') => ~running'

\* C22: stop_scheduler is idempotent: calling it two or more times, in any
\* lifecycle state (never started, running, already stopped), leaves the
\* scheduler in the state one call leaves, and the call never fails (it can
\* be made in every state)
C22_StopIsIdempotent ==
    /\ [](ENABLED StopScheduler)
    /\ [][StopAgainChangesNothing /\ StopLeavesStopped]_vars

\* a scheduler that ran a cycle, was stopped and whose start_scheduler has
\* returned: a state stop_scheduler is called in again
C22_Witness ==
    /\ Stopped
    /\ pc = "idle"
    /\ Len(starts) = 1
    /\ Len(cycles) >= 1

----------------------------------------------------------------------------
(* C23 *)

\* the list a get has just answered with holds every trigger of the
\* username that was created and has not been deleted
ListHoldsEveryTrigger ==
    result.route = "get" =>
        \A i \in 1..Len(triggers) :
            triggers[i].username = result.username =>
                \E k \in 1..Len(result.body) : result.body[k] = triggers[i]

\* after a delete that succeeded no trigger with the id is in the store
DeletedIsGone ==
    (result.route = "delete" /\ result.status = 200) =>
        result.id \notin Ids(triggers)

\* a delete of an id in the store succeeds; a delete of an id not in the
\* store answers 404 and leaves the store as it is
DeleteAnswers ==
    (calls' = calls + 1 /\ result'.route = "delete") =>
        /\ result'.status = (IF result'.id \in Ids(triggers) THEN 200 ELSE 404)
        /\ result'.status = 404 => triggers' = triggers

\* C23: after create_trigger succeeds for a trigger, get_user_triggers for
\* its username returns it until it is deleted; delete_trigger with its id
\* succeeds and afterwards no trigger with that id is in the store; a
\* delete_trigger for an id not in the store reports 404 and leaves the
\* store unchanged
C23_TriggerRoundTrip ==
    /\ [](ListHoldsEveryTrigger /\ DeletedIsGone)
    /\ [][DeleteAnswers]_vars

----------------------------------------------------------------------------
(* C24 *)

\* C24: whatever calls of start_scheduler and stop_scheduler came before
\* (a stop followed by a new start among them), no trigger is evaluated by
\* two cycles of the same minute: a restart does not leave several jobs
\* that each run the cycle
C24_AtMostOncePerMinuteAcrossRestarts ==
    \A c1, c2 \in Cycles :
        (c1 # c2 /\ cycles[c1].minute = cycles[c2].minute) =>
            Selected(c1) \cap Selected(c2) = {}

----------------------------------------------------------------------------
(* C25 *)

\* the cycle in progress ends with this step
CycleEndsStep ==
    /\ cycles # <<>>
    /\ Len(cycles') = Len(cycles)
    /\ ~cycles[Len(cycles)].done
    /\ cycles'[Len(cycles)].done

\* the triggers the cycle in progress selected that are no longer in the
\* store: a client deleted them after the cycle had read its list
DeletedMidCycle == Selected(Len(cycles)) \ Ids(triggers)

\* when a cycle ends, every trigger it selected that was deleted meanwhile
\* has been evaluated and has its record of that cycle (the trigger whose
\* own append raised aside: no code could have recorded it)
DeletedStillRecorded ==
    CycleEndsStep =>
        \A id \in DeletedMidCycle \ {cycles'[Len(cycles)].failed} :
            \E i \in 1..Len(notification_logs') :
                /\ notification_logs'[i].cycle = Len(cycles)
                /\ notification_logs'[i].trigger_id = id

\* a change of the store by a client leaves the list the cycle works on,
\* the cycle's position and every record already appended as they are
StoreChangeLeavesCycle ==
    triggers' # triggers => UNCHANGED <<due, pc, notification_logs>>

\* C25: a cycle works on the list of triggers it read at its start: a
\* selected trigger that a client deletes while the cycle is in progress
\* is still evaluated and recorded in that cycle, and deleting a trigger
\* never removes or alters records already appended
C25_CycleWorksOnItsOwnList ==
    [][DeletedStillRecorded /\ StoreChangeLeavesCycle]_vars

====
